---- MODULE Spec2Model ----
(***************************************************************************)
(* Model of the FraiseQL Relay extension (fraiseql_relay.c): the global id *)
(* codec, the v_nodes view refresh and the single and batch node           *)
(* resolvers.  Text is a sequence of character codes; a UUID is a sequence *)
(* of 16 bytes.                                                            *)
(***************************************************************************)
EXTENDS Integers, Sequences, FiniteSets, TLC

(* ------------------------------ bounds --------------------------------- *)
\* longest type name handed to the codec
MaxNameLen == 2
\* number of distinct UUIDs in play
MaxUuid == 2
\* most rows the backing tables hold together
MaxRows == 1
\* longest array handed to the batch resolver
MaxBatch == 2

(* --------------------------- character codes --------------------------- *)
ChColon == 58
ChQuote == 39
ChDash == 45
ChEquals == 61
ChLBrace == 123
ChRBrace == 125

UUID_LEN == 16

\* the characters type names are built from: the letter A, the codec's delimiter
\* and the SQL string delimiter
NameChars == {65, ChColon, ChQuote}

TypeNames == UNION {[1..n -> NameChars] : n \in 0..MaxNameLen}

\* the UUIDs in play are numbered; MkUuid(i) is the pg_uuid_t of number i,
\* 16 bytes, and the byte order of the values is not the order of the numbers
MkUuid(i) == [k \in 1..UUID_LEN |-> (i * 151 + k * 29) % 256]

NodeIds == 1..MaxUuid

Uuids == {MkUuid(i) : i \in NodeIds}

(* ------------------------------- text ---------------------------------- *)
\* a C string read at a 1-based position; the terminating NUL is code 0
CharAt(s, i) == IF i >= 1 /\ i <= Len(s) THEN s[i] ELSE 0

\* strchr(s, c): position of the first c in s, 0 when there is none
strchr(s, c) ==
    IF \E i \in 1..Len(s) : s[i] = c
    THEN CHOOSE i \in 1..Len(s) : s[i] = c /\ \A j \in 1..(i - 1) : s[j] # c
    ELSE 0

HasColon(s) == \E i \in 1..Len(s) : s[i] = ChColon

(* ------------------------------- uuid ---------------------------------- *)
HexDigits == <<48, 49, 50, 51, 52, 53, 54, 55, 56, 57, 97, 98, 99, 100, 101, 102>>

isxdigit(c) == c \in (48..57) \cup (65..70) \cup (97..102)

HexVal(c) ==
    IF c \in 48..57 THEN c - 48
    ELSE IF c \in 65..70 THEN c - 55
    ELSE c - 87

\* uuid_out: the canonical 8-4-4-4-12 lower-case form
RECURSIVE UuidOutFrom(_, _)
UuidOutFrom(u, i) ==
    IF i > UUID_LEN THEN <<>>
    ELSE (IF i \in {5, 7, 9, 11} THEN <<ChDash>> ELSE <<>>)
         \o <<HexDigits[(u[i] \div 16) + 1], HexDigits[(u[i] % 16) + 1]>>
         \o UuidOutFrom(u, i + 1)

uuid_out(u) == UuidOutFrom(u, 1)

\* uuid_in (string_to_uuid): optional braces, 16 pairs of hex digits, an
\* optional dash after every second byte; anything else is a syntax error
RECURSIVE StringToUuid(_, _, _, _)
StringToUuid(s, src, i, acc) ==
    IF i = UUID_LEN THEN [ok |-> TRUE, bytes |-> acc, src |-> src]
    ELSE IF CharAt(s, src) = 0 \/ CharAt(s, src + 1) = 0
         THEN [ok |-> FALSE, bytes |-> acc, src |-> src]
    ELSE IF ~isxdigit(CharAt(s, src)) \/ ~isxdigit(CharAt(s, src + 1))
         THEN [ok |-> FALSE, bytes |-> acc, src |-> src]
    ELSE LET b == HexVal(CharAt(s, src)) * 16 + HexVal(CharAt(s, src + 1))
             nx == src + 2
             nx2 == IF CharAt(s, nx) = ChDash /\ i % 2 = 1 /\ i < UUID_LEN - 1
                    THEN nx + 1 ELSE nx
         IN StringToUuid(s, nx2, i + 1, Append(acc, b))

NoUuid == <<>>

uuid_in(s) ==
    LET braces == CharAt(s, 1) = ChLBrace
        r == StringToUuid(s, IF braces THEN 2 ELSE 1, 0, <<>>)
        afterBrace == IF braces THEN r.src + 1 ELSE r.src
    IN IF ~r.ok THEN [ok |-> FALSE, uuid |-> NoUuid]
       ELSE IF braces /\ CharAt(s, r.src) # ChRBrace THEN [ok |-> FALSE, uuid |-> NoUuid]
       ELSE IF CharAt(s, afterBrace) # 0 THEN [ok |-> FALSE, uuid |-> NoUuid]
       ELSE [ok |-> TRUE, uuid |-> r.bytes]

(* ------------------------------ base64 --------------------------------- *)
\* the standard alphabet: A-Z a-z 0-9 + /
B64Char(v) ==
    IF v < 26 THEN 65 + v
    ELSE IF v < 52 THEN 97 + (v - 26)
    ELSE IF v < 62 THEN 48 + (v - 52)
    ELSE IF v = 62 THEN 43 ELSE 47

B64Val(c) ==
    IF c \in 65..90 THEN c - 65
    ELSE IF c \in 97..122 THEN c - 97 + 26
    ELSE IF c \in 48..57 THEN c - 48 + 52
    ELSE IF c = 43 THEN 62
    ELSE IF c = 47 THEN 63
    ELSE -1

RECURSIVE B64EncodeFrom(_, _)
B64EncodeFrom(s, i) ==
    LET n == Len(s) - i + 1
    IN IF n <= 0 THEN <<>>
       ELSE IF n = 1
            THEN <<B64Char(s[i] \div 4), B64Char((s[i] % 4) * 16), ChEquals, ChEquals>>
       ELSE IF n = 2
            THEN <<B64Char(s[i] \div 4),
                   B64Char((s[i] % 4) * 16 + (s[i + 1] \div 16)),
                   B64Char((s[i + 1] % 16) * 4), ChEquals>>
       ELSE <<B64Char(s[i] \div 4),
              B64Char((s[i] % 4) * 16 + (s[i + 1] \div 16)),
              B64Char((s[i + 1] % 16) * 4 + (s[i + 2] \div 64)),
              B64Char(s[i + 2] % 64)>> \o B64EncodeFrom(s, i + 3)

\* encode(..): base64 of the bytes of the text
encode(s) == B64EncodeFrom(s, 1)

\* decode of one group of four characters; pad is allowed only in the last
\* group, in its last one or two places
B64Quad(g, i, last) ==
    LET c1 == g[i]
        c2 == g[i + 1]
        c3 == g[i + 2]
        c4 == g[i + 3]
        v1 == B64Val(c1)
        v2 == B64Val(c2)
        v3 == B64Val(c3)
        v4 == B64Val(c4)
    IN IF v1 < 0 \/ v2 < 0 THEN [ok |-> FALSE, bytes |-> <<>>]
       ELSE IF c3 = ChEquals
            THEN IF last /\ c4 = ChEquals
                 THEN [ok |-> TRUE, bytes |-> <<v1 * 4 + (v2 \div 16)>>]
                 ELSE [ok |-> FALSE, bytes |-> <<>>]
       ELSE IF v3 < 0 THEN [ok |-> FALSE, bytes |-> <<>>]
       ELSE IF c4 = ChEquals
            THEN IF last
                 THEN [ok |-> TRUE,
                       bytes |-> <<v1 * 4 + (v2 \div 16), (v2 % 16) * 16 + (v3 \div 4)>>]
                 ELSE [ok |-> FALSE, bytes |-> <<>>]
       ELSE IF v4 < 0 THEN [ok |-> FALSE, bytes |-> <<>>]
       ELSE [ok |-> TRUE,
             bytes |-> <<v1 * 4 + (v2 \div 16), (v2 % 16) * 16 + (v3 \div 4),
                         (v3 % 4) * 64 + v4>>]

RECURSIVE B64DecodeFrom(_, _)
B64DecodeFrom(g, i) ==
    IF i > Len(g) THEN [ok |-> TRUE, bytes |-> <<>>]
    ELSE LET q == B64Quad(g, i, i + 4 > Len(g))
             rest == B64DecodeFrom(g, i + 4)
         IN IF q.ok /\ rest.ok
            THEN [ok |-> TRUE, bytes |-> q.bytes \o rest.bytes]
            ELSE [ok |-> FALSE, bytes |-> <<>>]

\* decode(..): the bytes a base64 text stands for, or an error
decode(g) ==
    IF Len(g) % 4 # 0 THEN [ok |-> FALSE, bytes |-> <<>>]
    ELSE B64DecodeFrom(g, 1)

(* ------------------------------- codec --------------------------------- *)
NoText == <<>>

\* what a call hands back: a value, or the error it raised
EncOk(t) == [errcode |-> "none", val |-> t]
DecOk(t, u) == [errcode |-> "none", typename |-> t, local_id |-> u]
DecError(code) == [errcode |-> code, typename |-> NoText, local_id |-> NoUuid]

\* fraiseql_encode_global_id(typename, local_id)
fraiseql_encode_global_id(typename, local_id) ==
    EncOk(encode(typename \o <<ChColon>> \o uuid_out(local_id)))

\* a faulty split: uuid_str = colon_pos, the delimiter left in front of the
\* uuid text
SplitKeepColon(decoded, colon_pos) ==
    [typename |-> SubSeq(decoded, 1, colon_pos - 1),
     uuid_str |-> SubSeq(decoded, colon_pos, Len(decoded))]

\* the split of the decoded text at colon_pos
SplitAt(decoded, colon_pos) ==
    [typename |-> SubSeq(decoded, 1, colon_pos - 1),
     uuid_str |-> SubSeq(decoded, colon_pos + 1, Len(decoded))]

\* a faulty decoder: no test of colon_pos; with no colon the whole text is
\* taken as the uuid and the type name is left empty
DecodeWithoutColonCheck(global_id) ==
    LET d == decode(global_id)
    IN IF ~d.ok THEN DecError("ERRCODE_INVALID_PARAMETER_VALUE")
       ELSE LET parts == SplitAt(d.bytes, strchr(d.bytes, ChColon))
                u == uuid_in(parts.uuid_str)
            IN IF ~u.ok THEN DecError("ERRCODE_INVALID_TEXT_REPRESENTATION")
               ELSE DecOk(parts.typename, u.uuid)

\* fraiseql_decode_global_id(global_id)
fraiseql_decode_global_id(global_id) ==
    LET d == decode(global_id)
    IN IF ~d.ok THEN DecError("ERRCODE_INVALID_PARAMETER_VALUE")
       ELSE LET colon_pos == strchr(d.bytes, ChColon)
            IN IF colon_pos = 0 THEN DecError("ERRCODE_INVALID_PARAMETER_VALUE")
               ELSE LET parts == SplitAt(d.bytes, colon_pos)
                        u == uuid_in(parts.uuid_str)
                    IN IF ~u.ok THEN DecError("ERRCODE_INVALID_TEXT_REPRESENTATION")
                       ELSE DecOk(parts.typename, u.uuid)

(* --------------------------- the database ------------------------------ *)
\* SQL NULL in a text column, and a NULL element of a uuid[] argument
NULL == "NULL"
NullUuid == 0

\* byte-wise order of two texts or two UUIDs
RECURSIVE SeqLess(_, _)
SeqLess(a, b) ==
    IF a = <<>> THEN b # <<>>
    ELSE IF b = <<>> THEN FALSE
    ELSE IF Head(a) # Head(b) THEN Head(a) < Head(b)
    ELSE SeqLess(Tail(a), Tail(b))

\* the backing tables and the soft-delete column each of them has
TableNames == {"t1", "t2"}

DeleteColumnOf(t) == IF t = "t1" THEN "deleted_at" ELSE "archived_at"

\* a row of a table is absent, live (soft-delete column NULL) or soft-deleted
RowStates == {"absent", "live", "deleted"}

RowCount(d) == Cardinality({p \in TableNames \X NodeIds : d[p[1]][p[2]] # "absent"})

Datasets == {d \in [TableNames -> [NodeIds -> RowStates]] : RowCount(d) <= MaxRows}

\* entity names "a" and "b"
EntityNames == {<<97>>, <<98>>}

\* the type names registered: the plain name A, a lone quote, a doubled quote
RegisteredTypeNames == {<<65>>, <<ChQuote>>, <<ChQuote, ChQuote>>}

RegistryRows ==
    [entity_name : EntityNames,
     graphql_type : RegisteredTypeNames,
     v_table : {NULL, "t1"},
     tv_table : {NULL, "t2"},
     soft_delete_column : {NULL, "archived_at"}]

\* entity_name is unique in the registry, and so is graphql_type
RegistryValid(reg) ==
    \A r1, r2 \in reg :
        (r1.entity_name = r2.entity_name \/ r1.graphql_type = r2.graphql_type)
            => r1 = r2

Registries ==
    {{}} \cup {{r} : r \in RegistryRows}
    \cup {reg \in {{r1, r2} : r1, r2 \in RegistryRows} : RegistryValid(reg)}

COALESCE(a, b) == IF a # NULL THEN a ELSE b

EntityNameLess(r1, r2) == SeqLess(r1.entity_name, r2.entity_name)

\* ORDER BY entity_name: the set as a sequence; entity names are unique
OrderByEntityName(S) ==
    [i \in 1..Cardinality(S) |->
        CHOOSE x \in S : Cardinality({y \in S : EntityNameLess(y, x)}) = i - 1]

\* the registry query: the entities with a v_table, ORDER BY entity_name
RegistryQuery(reg) ==
    OrderByEntityName(
        {[entity_name |-> r.entity_name,
          graphql_type |-> r.graphql_type,
          data_table |-> COALESCE(r.tv_table, r.v_table),
          delete_col |-> COALESCE(r.soft_delete_column, "deleted_at")] :
             r \in {x \in reg : x.v_table # NULL}})

\* '%s': the text put between two quotes, as it is
QuoteInterpolate(raw) == <<ChQuote>> \o raw \o <<ChQuote>>

\* the SELECT the loop appends for one entity
SelectPart(e) ==
    [typename_sql |-> QuoteInterpolate(e.graphql_type),
     entity_name_sql |-> QuoteInterpolate(e.entity_name),
     data_table |-> e.data_table,
     delete_col |-> e.delete_col]

\* view_sql: the SELECTs in the order of the registry query, joined by
\* UNION ALL; the empty sequence is the WHERE FALSE view
BuildViewSql(entities) == [i \in 1..Len(entities) |-> SelectPart(entities[i])]

\* how the SQL parser reads a quoted string: '' inside stands for one quote,
\* a single quote ends the string, and the text must end there
RECURSIVE SqlStringFrom(_, _, _)
SqlStringFrom(text, i, acc) ==
    IF i > Len(text) THEN [ok |-> FALSE, val |-> NoText]
    ELSE IF text[i] # ChQuote THEN SqlStringFrom(text, i + 1, Append(acc, text[i]))
    ELSE IF CharAt(text, i + 1) = ChQuote
         THEN SqlStringFrom(text, i + 2, Append(acc, ChQuote))
    ELSE IF i = Len(text) THEN [ok |-> TRUE, val |-> acc]
    ELSE [ok |-> FALSE, val |-> NoText]

SqlStringLiteral(text) ==
    IF CharAt(text, 1) # ChQuote THEN [ok |-> FALSE, val |-> NoText]
    ELSE SqlStringFrom(text, 2, <<>>)

\* one SELECT of the view as the server compiles it: the statement is
\* rejected when a literal does not parse or the table lacks the column
PartCompiles(p) ==
    /\ SqlStringLiteral(p.typename_sql).ok
    /\ SqlStringLiteral(p.entity_name_sql).ok
    /\ p.data_table \in TableNames
    /\ p.delete_col = DeleteColumnOf(p.data_table)

CompilePart(p) ==
    [typename |-> SqlStringLiteral(p.typename_sql).val,
     entity_name |-> SqlStringLiteral(p.entity_name_sql).val,
     data_table |-> p.data_table]

NoView == [exists |-> FALSE, parts |-> <<>>]

\* a faulty replacement: the new SELECTs are added to the ones in effect
AppendToView(old, new) == [exists |-> TRUE, parts |-> old.parts \o new]

\* CREATE OR REPLACE VIEW: the new definition takes the place of the old one
ReplaceView(old, new) == [exists |-> TRUE, parts |-> new]

\* SPI_execute(view_sql): the definition now in effect, or the error raised
ExecCreateView(old, view_sql) ==
    IF \A i \in 1..Len(view_sql) : PartCompiles(view_sql[i])
    THEN [ok |-> TRUE,
          view |-> ReplaceView(old, [i \in 1..Len(view_sql) |-> CompilePart(view_sql[i])])]
    ELSE [ok |-> FALSE, view |-> old]

\* the rows of core.v_nodes: for each SELECT, the live rows of its table
PartRows(p, d) ==
    {[id |-> u, typename |-> p.typename, entity_name |-> p.entity_name,
      data |-> <<p.data_table, u>>] :
        u \in {x \in NodeIds : d[p.data_table][x] = "live"}}

ViewRows(v, d) == UNION {PartRows(v.parts[i], d) : i \in 1..Len(v.parts)}

(* ------------------------------ results -------------------------------- *)
NoData == <<>>

\* the four columns of a result tuple
NodeResult(row, source) ==
    [typename |-> row.typename, data |-> row.data,
     entity_name |-> row.entity_name, source_used |-> source]

NoResult == [typename |-> NoText, data |-> NoData, entity_name |-> NoText, source_used |-> ""]

(* -------------------------- batch resolution --------------------------- *)
ChComma == 44

\* uuid_out of each UUID in play
UuidText == [i \in NodeIds |-> uuid_out(MkUuid(i))]

\* ids_buf between "ARRAY[" and "]::uuid[]": the tokens the loop appends
RECURSIVE IdsBufFrom(_, _)
IdsBufFrom(elems, i) ==
    IF i > Len(elems) THEN <<>>
    ELSE IF elems[i] = NullUuid THEN IdsBufFrom(elems, i + 1)
    ELSE (IF i > 1 THEN <<(<<ChComma>>)>> ELSE <<>>)
         \o <<QuoteInterpolate(UuidText[elems[i]])>>
         \o IdsBufFrom(elems, i + 1)

IdsBuf(elems) == IdsBufFrom(elems, 1)

\* the server's reading of ARRAY[ ... ]::uuid[]: elements separated by
\* commas; a comma with no element before it is a syntax error
ReadUuidLiteral(tok) ==
    LET lit == SqlStringLiteral(tok)
    IN IF lit.ok THEN uuid_in(lit.val) ELSE [ok |-> FALSE, uuid |-> NoUuid]

\* the value of each '...' token ids_buf can hold, read once
UuidLiteralValue ==
    [tok \in {QuoteInterpolate(UuidText[i]) : i \in NodeIds} |-> ReadUuidLiteral(tok)]

RECURSIVE ParseArray(_, _, _)
ParseArray(toks, i, acc) ==
    IF i > Len(toks) THEN [ok |-> TRUE, elems |-> acc]
    ELSE IF toks[i] = <<ChComma>> THEN [ok |-> FALSE, elems |-> <<>>]
    ELSE LET u == UuidLiteralValue[toks[i]]
         IN IF ~u.ok THEN [ok |-> FALSE, elems |-> <<>>]
            ELSE IF i = Len(toks) THEN [ok |-> TRUE, elems |-> Append(acc, u.uuid)]
            ELSE IF toks[i + 1] # <<ChComma>> \/ i + 1 = Len(toks)
                 THEN [ok |-> FALSE, elems |-> <<>>]
            ELSE ParseArray(toks, i + 2, Append(acc, u.uuid))

ArrayLiteral(toks) == ParseArray(toks, 1, <<>>)

\* WHERE id = ANY(array): the rows whose id is an element of the array
AnyMatch(rows, elems) ==
    {r \in rows : \E i \in 1..Len(elems) : MkUuid(r.id) = elems[i]}

\* a faulty query: the rows joined to the array, once per element
RECURSIVE JoinEachElement(_, _)
JoinEachElement(rows, elems) ==
    IF elems = <<>> THEN <<>>
    ELSE LET hits == {r \in rows : MkUuid(r.id) = Head(elems)}
         IN [i \in 1..Cardinality(hits) |->
                CHOOSE x \in hits :
                    Cardinality({y \in hits : SeqLess(y.typename, x.typename)}) = i - 1]
            \o JoinEachElement(rows, Tail(elems))

\* ORDER BY __typename, id
TypenameIdLess(r1, r2) ==
    \/ SeqLess(r1.typename, r2.typename)
    \/ r1.typename = r2.typename /\ SeqLess(MkUuid(r1.id), MkUuid(r2.id))

\* the set as a sequence; no two rows of the view have the same type name
\* and id
OrderByTypenameId(S) ==
    [i \in 1..Cardinality(S) |->
        CHOOSE x \in S : Cardinality({y \in S : TypenameIdLess(y, x)}) = i - 1]

\* SELECT .. FROM core.v_nodes WHERE id = ANY(..) ORDER BY __typename, id
BatchQuery(rows, elems) == OrderByTypenameId(AnyMatch(rows, elems))

BatchOut(code, rows) == [errcode |-> code, rows |-> rows]

\* fraiseql_resolve_nodes_batch(node_ids) against view v and dataset d
fraiseql_resolve_nodes_batch(v, d, elems) ==
    LET arr == ArrayLiteral(IdsBuf(elems))
    IN IF ~v.exists \/ ~arr.ok THEN BatchOut("ERROR", <<>>)
       ELSE LET sorted == BatchQuery(ViewRows(v, d), arr.elems)
            IN BatchOut("none",
                        [i \in 1..Len(sorted) |-> NodeResult(sorted[i], "v_nodes_batch")])

(* -------------------------- single resolution -------------------------- *)
NodeOut(code, found, res) == [errcode |-> code, found |-> found, result |-> res]

\* fraiseql_resolve_node_fast(node_id): every outcome WHERE id = $1 LIMIT 1
\* can have against view v and dataset d
fraiseql_resolve_node_fast(v, d, node_id) ==
    IF node_id = NullUuid THEN {NodeOut("none", FALSE, NoResult)}
    ELSE IF ~v.exists THEN {NodeOut("ERROR", FALSE, NoResult)}
    ELSE LET hits == {r \in ViewRows(v, d) : r.id = node_id}
         IN IF hits = {} THEN {NodeOut("none", FALSE, NoResult)}
            ELSE {NodeOut("none", TRUE, NodeResult(r, "v_nodes")) : r \in hits}

(* ----------------------------- variables ------------------------------- *)
VARIABLES
    encIn,      \* the arguments of the last fraiseql_encode_global_id call
    encOut,     \* what that call returned
    decIn,      \* the argument of the last fraiseql_decode_global_id call
    decOut,     \* what that call returned or raised
    registry,   \* core.tb_entity_registry: a set of rows
    tables,     \* the backing tables: for each table, the state of each id
    view,       \* core.v_nodes: the view definition in effect
    refreshOut, \* the last fraiseql_refresh_nodes_view_fast call
    nodeCall,   \* the last fraiseql_resolve_node_fast call
    batchCall   \* the last fraiseql_resolve_nodes_batch call

codecVars == <<encIn, encOut, decIn, decOut>>

dbVars == <<registry, tables, view, refreshOut, nodeCall, batchCall>>

vars == <<encIn, encOut, decIn, decOut, registry, tables, view, refreshOut,
          nodeCall, batchCall>>

(* ----------------------------- view refresh ---------------------------- *)
\* fraiseql_refresh_nodes_view_fast() on registry reg with view old in
\* effect.  index_ok: whether the server accepts CREATE INDEX on the view.
\* A statement the server rejects raises out of SPI_execute, the call ends
\* there and the transaction's changes, the new view among them, are undone.
fraiseql_refresh_nodes_view_fast(reg, old, index_ok) ==
    LET entities == RegistryQuery(reg)
        entity_count == Len(entities)
        created == ExecCreateView(old, BuildViewSql(entities))
        indexes_ok == entity_count = 0 \/ index_ok
        done == created.ok /\ indexes_ok
    IN [errcode |-> IF done THEN "none" ELSE "ERROR",
        ret |-> done,
        entity_count |-> entity_count,
        view_replaced |-> created.ok,
        view |-> IF done THEN created.view ELSE old]

\* no rebuild since the registry last changed; again: the call came straight
\* after a rebuild that succeeded on the same registry
NotRefreshed ==
    [called |-> FALSE, again |-> FALSE, errcode |-> "none", ret |-> FALSE,
     entity_count |-> 0, view_replaced |-> FALSE]

NoNodeCall == [called |-> FALSE, node_id |-> NullUuid, out |-> NodeOut("none", FALSE, NoResult)]

NoBatchCall == [called |-> FALSE, node_ids |-> <<>>, out |-> BatchOut("none", <<>>)]

\* the arrays handed to the batch resolver; the last one is
\* [A1, A1, unknownId, null]
BatchInputs ==
    UNION {[1..n -> NodeIds \cup {NullUuid}] : n \in 0..MaxBatch}
    \cup {<<1, 1, 2, NullUuid>>}

\* every table holds the first id live and the others soft-deleted
FullDataset ==
    [t \in TableNames |-> [u \in NodeIds |-> IF u = 1 THEN "live" ELSE "deleted"]]

Refresh(index_ok) ==
    LET r == fraiseql_refresh_nodes_view_fast(registry, view, index_ok)
    IN /\ view' = r.view
       /\ refreshOut' = [called |-> TRUE,
                         again |-> refreshOut.called /\ refreshOut.errcode = "none",
                         errcode |-> r.errcode, ret |-> r.ret,
                         entity_count |-> r.entity_count,
                         view_replaced |-> r.view_replaced]
       /\ nodeCall' = NoNodeCall
       /\ batchCall' = NoBatchCall
       /\ UNCHANGED <<registry, tables>>
       /\ UNCHANGED codecVars

\* a resolver reads only: one call in each state of the database shows all
\* a call can return there
ResolveNode(node_id) ==
    /\ ~nodeCall.called /\ ~batchCall.called
    /\ \E out \in fraiseql_resolve_node_fast(view, tables, node_id) :
          nodeCall' = [called |-> TRUE, node_id |-> node_id, out |-> out]
    /\ UNCHANGED <<registry, tables, view, refreshOut, batchCall>>
    /\ UNCHANGED codecVars

ResolveNodes(node_ids) ==
    /\ ~nodeCall.called /\ ~batchCall.called
    /\ batchCall' = [called |-> TRUE, node_ids |-> node_ids,
                     out |-> fraiseql_resolve_nodes_batch(view, tables, node_ids)]
    /\ UNCHANGED <<registry, tables, view, refreshOut, nodeCall>>
    /\ UNCHANGED codecVars

\* the registry's owner adds, replaces or removes an entity; the view is
\* left as it is until the next refresh
RegisterEntity(row) ==
    LET reg == {r \in registry : r.entity_name # row.entity_name} \cup {row}
    IN /\ row \notin registry
       /\ RegistryValid(reg)
       /\ registry' = reg
       /\ refreshOut' = NotRefreshed
       /\ nodeCall' = NoNodeCall
       /\ batchCall' = NoBatchCall
       /\ UNCHANGED <<tables, view>>
       /\ UNCHANGED codecVars

UnregisterEntity(row) ==
    /\ row \in registry
    /\ registry' = registry \ {row}
    /\ refreshOut' = NotRefreshed
    /\ nodeCall' = NoNodeCall
    /\ batchCall' = NoBatchCall
    /\ UNCHANGED <<tables, view>>
    /\ UNCHANGED codecVars

CodecIdle ==
    /\ encIn = [called |-> FALSE, typename |-> NoText, local_id |-> NoUuid]
    /\ encOut = EncOk(NoText)
    /\ decIn = [class |-> "none", text |-> NoText]
    /\ decOut = DecError("none")

\* the registries whose entities all reach the view: each has a v_table and
\* the server accepts the SELECT built for it
ViewableRegistries ==
    {reg \in Registries :
        /\ \A r \in reg : r.v_table # NULL
        /\ ExecCreateView(NoView, BuildViewSql(RegistryQuery(reg))).ok}

\* the batch resolver against every dataset and every registry the view can
\* be built from
Init ==
    /\ CodecIdle
    /\ registry \in ViewableRegistries
    /\ tables \in Datasets
    /\ view = NoView
    /\ refreshOut = NotRefreshed
    /\ nodeCall = NoNodeCall
    /\ batchCall = NoBatchCall

Next ==
    \/ \E index_ok \in BOOLEAN : Refresh(index_ok)
    \/ \E node_ids \in BatchInputs : ResolveNodes(node_ids)

Spec == Init /\ [][Next]_vars

\* the single resolver against every registry and every dataset
NodeInit ==
    /\ CodecIdle
    /\ registry \in Registries
    /\ tables \in Datasets
    /\ view = NoView
    /\ refreshOut = NotRefreshed
    /\ nodeCall = NoNodeCall
    /\ batchCall = NoBatchCall

NodeNext ==
    \/ \E index_ok \in BOOLEAN : Refresh(index_ok)
    \/ \E node_id \in NodeIds \cup {NullUuid} : ResolveNode(node_id)

SpecNode == NodeInit /\ [][NodeNext]_vars

\* the view across registry changes
ViewInit ==
    /\ CodecIdle
    /\ registry = {}
    /\ tables = FullDataset
    /\ view = NoView
    /\ refreshOut = NotRefreshed
    /\ nodeCall = NoNodeCall
    /\ batchCall = NoBatchCall

ViewNext ==
    \/ \E row \in RegistryRows : RegisterEntity(row)
    \/ \E row \in RegistryRows : UnregisterEntity(row)
    \/ \E index_ok \in BOOLEAN : Refresh(index_ok)

SpecView == ViewInit /\ [][ViewNext]_vars

(* -------------------------- codec operations --------------------------- *)
\* "not-valid-base64"
NotValidBase64 ==
    <<110, 111, 116, 45, 118, 97, 108, 105, 100, 45, 98, 97, 115, 101, 54, 52>>

\* "no-colon-here"
NoColonHere == <<110, 111, 45, 99, 111, 108, 111, 110, 45, 104, 101, 114, 101>>

ToUpper(s) == [i \in 1..Len(s) |-> IF s[i] \in 97..102 THEN s[i] - 32 ELSE s[i]]

WithoutDashes(s) == SelectSeq(s, LAMBDA c : c # ChDash)

\* texts that are no UUID: cut short, a g for a digit, a trailing A,
\* nothing at all, a dash inside a byte, an unclosed brace
BadUuidTexts(u) ==
    LET c == uuid_out(u)
    IN {SubSeq(c, 1, Len(c) - 1),
        [c EXCEPT ![1] = 103],
        c \o <<65>>,
        <<>>,
        <<c[1], ChDash>> \o SubSeq(c, 2, Len(c)),
        <<ChLBrace>> \o c}

\* other spellings uuid_in accepts
UuidVariants(u) ==
    LET c == uuid_out(u)
    IN {ToUpper(c), WithoutDashes(c), <<ChLBrace>> \o c \o <<ChRBrace>>}

\* texts that are not base64: a symbol outside the alphabet, a length that is
\* no multiple of four, padding in the middle
NotBase64Texts(g) ==
    {NotValidBase64} \cup
    (IF Len(g) < 4 THEN {}
     ELSE {[g EXCEPT ![1] = ChDash],
           SubSeq(g, 1, Len(g) - 1),
           [g EXCEPT ![2] = ChEquals]})

\* the global ids the decoder is tried on, built around the last encode call
GlobalIdInputs ==
    {[class |-> "not_base64", text |-> NotValidBase64],
     [class |-> "no_colon", text |-> encode(NoColonHere)]}
    \cup
    (IF ~encIn.called THEN {}
     ELSE {[class |-> "encoded", text |-> encOut.val]}
          \cup {[class |-> "not_base64", text |-> g] : g \in NotBase64Texts(encOut.val)}
          \cup (IF HasColon(encIn.typename) THEN {}
                ELSE {[class |-> "no_colon",
                       text |-> encode(encIn.typename \o uuid_out(encIn.local_id))]})
          \cup {[class |-> "bad_uuid",
                 text |-> encode(encIn.typename \o <<ChColon>> \o b)] :
                    b \in BadUuidTexts(encIn.local_id)}
          \cup (IF HasColon(encIn.typename) THEN {}
                ELSE {[class |-> "variant",
                       text |-> encode(encIn.typename \o <<ChColon>> \o v)] :
                          v \in UuidVariants(encIn.local_id)}))

CodecInit ==
    /\ encIn = [called |-> FALSE, typename |-> NoText, local_id |-> NoUuid]
    /\ encOut = EncOk(NoText)
    /\ decIn = [class |-> "none", text |-> NoText]
    /\ decOut = DecError("none")
    /\ registry = {}
    /\ tables = FullDataset
    /\ view = NoView
    /\ refreshOut = NotRefreshed
    /\ nodeCall = NoNodeCall
    /\ batchCall = NoBatchCall

Encode(t, u) ==
    /\ encIn' = [called |-> TRUE, typename |-> t, local_id |-> u]
    /\ encOut' = fraiseql_encode_global_id(t, u)
    /\ decIn' = [class |-> "none", text |-> NoText]
    /\ decOut' = DecError("none")
    /\ UNCHANGED dbVars

Decode(g) ==
    /\ decIn' = g
    /\ decOut' = fraiseql_decode_global_id(g.text)
    /\ UNCHANGED <<encIn, encOut>>
    /\ UNCHANGED dbVars

CodecNext ==
    \/ \E t \in TypeNames, u \in Uuids : Encode(t, u)
    \/ \E g \in GlobalIdInputs : Decode(g)

SpecCodec == CodecInit /\ [][CodecNext]_vars

(* ---------------------------- codec claims ----------------------------- *)
\* the decoder was run on the global id the last encode call produced
DecodedLastEncoded ==
    /\ encIn.called
    /\ decIn.class = "encoded"
    /\ decIn.text = encOut.val

\* C1: for a type name without a colon, decoding the global id that encode
\* produced gives back exactly the type name and the UUID that went in.
C1_RoundTrip ==
    (DecodedLastEncoded /\ ~HasColon(encIn.typename))
        => decOut = DecOk(encIn.typename, encIn.local_id)

C1_Witness ==
    /\ DecodedLastEncoded
    /\ ~HasColon(encIn.typename)
    /\ Len(encIn.typename) = MaxNameLen
    /\ decOut.errcode = "none"

\* C2: encode fails with InvalidTypeName, and returns no global id, whenever
\* the type name contains a colon.
C2_RejectsColon ==
    (encIn.called /\ HasColon(encIn.typename))
        => (encOut.errcode = "InvalidTypeName" /\ encOut.val = NoText)

\* the error kind InvalidFormat: decode raised, and returned no pair
InvalidFormat(r) ==
    /\ r.errcode \in {"ERRCODE_INVALID_PARAMETER_VALUE",
                      "ERRCODE_INVALID_TEXT_REPRESENTATION"}
    /\ r.typename = NoText
    /\ r.local_id = NoUuid

\* C3: decode raises InvalidFormat, and returns no pair, on text that is not
\* base64, on decoded text without a colon, and on decoded text whose part
\* after the first colon is no UUID.
C3_Malformed ==
    decIn.class \in {"not_base64", "no_colon", "bad_uuid"} => InvalidFormat(decOut)

C3_Witness ==
    /\ decIn.class = "bad_uuid"
    /\ encIn.called
    /\ decIn.text = encode(encIn.typename \o <<ChColon>>
                           \o uuid_out(encIn.local_id) \o <<65>>)
    /\ InvalidFormat(decOut)

\* the other spellings of a UUID decode to the same UUID
VariantsDecode ==
    (decIn.class = "variant" /\ encIn.called
        /\ decIn.text \in {encode(encIn.typename \o <<ChColon>> \o v) :
                              v \in UuidVariants(encIn.local_id)})
        => decOut = DecOk(encIn.typename, encIn.local_id)

(* --------------------------- resolver claims --------------------------- *)
\* the view in effect was built from the registry as it is now
Rebuilt == refreshOut.called /\ refreshOut.errcode = "none"

\* the registered node entities that hold a live row with this id
LiveHolders(id) ==
    {r \in registry :
        /\ r.v_table # NULL
        /\ tables[COALESCE(r.tv_table, r.v_table)][id] = "live"}

\* C4: after a view rebuild resolveNode(id) returns a record whose typeName
\* is the display type name of the registered entity holding a live row with
\* that id, and NotFound, never an error, when no entity holds one.
C4_ResolveNode ==
    (Rebuilt /\ nodeCall.called /\ nodeCall.node_id # NullUuid) =>
        /\ nodeCall.out.errcode = "none"
        /\ IF LiveHolders(nodeCall.node_id) = {}
           THEN ~nodeCall.out.found
           ELSE /\ nodeCall.out.found
                /\ \E r \in LiveHolders(nodeCall.node_id) :
                      nodeCall.out.result.typename = r.graphql_type

\* the non-null entries of an input array, as a set
NonNull(node_ids) == {node_ids[i] : i \in 1..Len(node_ids)} \ {NullUuid}

\* the records of the view rows with one of these ids
RecordsOf(ids) ==
    {NodeResult(r, "v_nodes_batch") : r \in {x \in ViewRows(view, tables) : x.id \in ids}}

BatchRows == batchCall.out.rows

\* the id of the row a record was built from, read off its payload
RowIdOf(rec) == rec.data[2]

\* C5: wherever the null entries of the input stand, they are skipped and the
\* call completes without an error, returning the records of the non-null
\* ids that have a matching row.
C5_NullsSkipped ==
    (batchCall.called /\ view.exists) =>
        /\ batchCall.out.errcode = "none"
        /\ {BatchRows[i] : i \in 1..Len(BatchRows)} = RecordsOf(NonNull(batchCall.node_ids))

\* how many records of the output were built from a row with this id
CountFor(u) == Cardinality({i \in 1..Len(BatchRows) : RowIdOf(BatchRows[i]) = u})

\* how many rows of the view have this id
ViewRowsFor(u) == Cardinality({r \in ViewRows(view, tables) : r.id = u})

\* the array [A1, A1, unknownId, null] against a view with one row for A1
\* and none for unknownId
ExampleCase ==
    /\ batchCall.called
    /\ batchCall.node_ids = <<1, 1, 2, NullUuid>>
    /\ view.exists
    /\ ViewRowsFor(1) = 1
    /\ ViewRowsFor(2) = 0

\* C6 as stated: the output holds at most one record per distinct input id,
\* whatever the view holds, and none for an id with no matching row.
C6_AtMostOnePerId ==
    batchCall.called =>
        /\ \A u \in NodeIds :
              /\ CountFor(u) <= 1
              /\ (ViewRowsFor(u) = 0 => CountFor(u) = 0)
        /\ (ExampleCase => Len(BatchRows) = 1 /\ CountFor(1) = 1)

\* C6 as amended: the output holds one record per view row whose id occurs
\* in the input, however many times it occurs there, and never more records
\* for an id than the view has rows with it: at most one where ids are unique
\* across the view, one per entity where several entities project the id;
\* ids that are not in the input or have no matching row get no record.
C6_OnePerViewRow ==
    batchCall.called =>
        /\ \A u \in NodeIds :
              /\ CountFor(u) <= ViewRowsFor(u)
              /\ (u \notin NonNull(batchCall.node_ids) => CountFor(u) = 0)
              /\ (batchCall.out.errcode = "none" /\ u \in NonNull(batchCall.node_ids)
                    => CountFor(u) = ViewRowsFor(u))
        /\ (ExampleCase => Len(BatchRows) = 1 /\ CountFor(1) = 1)

\* an id given twice, two view rows with it, two records
C6_Witness ==
    /\ batchCall.called
    /\ \E u \in NodeIds :
          /\ Cardinality({i \in 1..Len(batchCall.node_ids) : batchCall.node_ids[i] = u}) = 2
          /\ ViewRowsFor(u) = 2
          /\ CountFor(u) = 2

\* the rearrangements of an array
Rearranged(s) ==
    {[i \in 1..Len(s) |-> s[p[i]]] : p \in Permutations(1..Len(s))}

RecordLess(a, b) ==
    \/ SeqLess(a.typename, b.typename)
    \/ a.typename = b.typename /\ SeqLess(MkUuid(RowIdOf(a)), MkUuid(RowIdOf(b)))

\* C7: the output is sorted ascending by (typeName, id), and two inputs that
\* are rearrangements of each other give the same output sequence.
C7_SortedAndOrderFree ==
    (batchCall.called /\ view.exists) =>
        /\ \A i, j \in 1..Len(BatchRows) : i < j => RecordLess(BatchRows[i], BatchRows[j])
        /\ \A s \in Rearranged(batchCall.node_ids) :
              fraiseql_resolve_nodes_batch(view, tables, s).rows = BatchRows

\* C10: every record the batch resolver returns carries the matched id, next
\* to the type name, the entity name, the source used and the data.
C10_RecordsCarryId ==
    batchCall.called =>
        \A i \in 1..Len(BatchRows) :
            {"id", "typename", "entity_name", "source_used", "data"}
                \subseteq DOMAIN BatchRows[i]

(* ----------------------------- view claims ----------------------------- *)
RefreshStep == \E index_ok \in BOOLEAN : Refresh(index_ok)

\* what CREATE OR REPLACE VIEW would put in effect for the registry as it is
Replacement == ExecCreateView(view, BuildViewSql(RegistryQuery(registry)))

\* C8: a rebuild either puts the full replacement in effect and reports
\* success, or leaves the previous view in effect and reports failure; a
\* failure of the index steps after the replacement does not fail it.
C8_AllOrNothing ==
    [][RefreshStep =>
          /\ \/ refreshOut'.errcode = "none" /\ Replacement.ok /\ view' = Replacement.view
             \/ refreshOut'.errcode # "none" /\ view' = view
          /\ (Replacement.ok => refreshOut'.errcode = "none")]_vars

\* the SELECTs of a view stand in ascending order of entity name
InRegistryOrder(v) ==
    \A i, j \in 1..Len(v.parts) :
        i < j => SeqLess(v.parts[i].entity_name, v.parts[j].entity_name)

====
